---- MODULE Spec2Model ----
(***************************************************************************)
(* The upload workflow of sanity-plugin-external-dam: the XState machine   *)
(* `uploadMachine` (src/src/components/Uploader/uploadMachine.ts) together *)
(* with the Firebase vendor adapter's uploadFile                           *)
(* (src/packages/firebase/src/config.ts).                                  *)
(*                                                                         *)
(* Strings that the code inspects (MIME types) are tuples of characters,   *)
(* so that String.prototype.includes is a real substring search.  An       *)
(* absent (undefined) value is the record Undefined.                       *)
(***************************************************************************)
EXTENDS Integers, Sequences, FiniteSets, TLC

VARIABLES
    state,        \* the machine's current state node
    context,      \* the machine's context (interface Context)
    extraction,   \* closure state of the running extraction promise, or Undefined
    uploadTasks,  \* Firebase upload tasks whose observers may still be called
    lastEvent,    \* type of the event of the machine's last transition
    effects,      \* the named actions executed by the machine's last transition
    vendorDone,   \* history: the vendor step succeeded for the current attempt sequence
    extracted,    \* history: the extraction that resolved for the selected file, or "none"
    lambda        \* one invocation of the credential-issuance handler (packages/aws)

\* The variables of the upload machine and its adapter
machineVars ==
    <<state, context, extraction, uploadTasks, lastEvent, effects, vendorDone, extracted>>

vars == <<state, context, extraction, uploadTasks, lastEvent, effects, vendorDone,
          extracted, lambda>>

\* ---------------------------------------------------------------- bounds

\* RETRY is not modelled beyond this many retries (the code has no cap).
MaxRetries == 5

\* At most this many Firebase upload tasks are tracked at once.
MaxTasks == 2

\* ---------------------------------------------------------------- values

Undefined == [tag |-> "undefined"]

VideoWord == <<"v", "i", "d", "e", "o">>
AudioWord == <<"a", "u", "d", "i", "o">>

\* String.prototype.includes
Includes(s, w) ==
    \E i \in 1..(Len(s) - Len(w) + 1) : SubSeq(s, i, i + Len(w) - 1) = w

\* String.prototype.startsWith
StartsWith(s, w) ==
    Len(s) >= Len(w) /\ SubSeq(s, 1, Len(w)) = w

Str(chars) == [chars |-> chars]

\* The files the user can select.  File.type is a string; `untyped` stands
\* for an event whose file has no type property.
Files ==
    { [name |-> "movie",   type |-> Str(VideoWord \o <<"/", "m", "p", "4">>)],
      [name |-> "song",    type |-> Str(AudioWord \o <<"/", "m", "p", "3">>)],
      [name |-> "mixed",   type |-> Str(AudioWord \o <<"/">> \o VideoWord)],
      [name |-> "xvideo",  type |-> Str(<<"x", "/">> \o VideoWord)],
      [name |-> "picture", type |-> Str(<<"i", "m", "a", "g", "e", "/", "p", "n", "g">>)],
      [name |-> "blank",   type |-> Str(<<>>)],
      [name |-> "untyped", type |-> Undefined] }

\* event.file of SELECT_FILE is optional
EventFiles == Files \cup {Undefined}

\* event.file?.type?.includes(word)
TypeIncludes(file, word) ==
    /\ file # Undefined
    /\ file.type # Undefined
    /\ Includes(file.type.chars, word)

\* file.type.startsWith(word), false for a missing file or type
TypeStartsWith(file, word) ==
    /\ file # Undefined
    /\ file.type # Undefined
    /\ StartsWith(file.type.chars, word)

ProgressValues == {0, 100}

INITIAL_CONTEXT ==
    [ retries              |-> 0,
      vendorUploadProgress |-> 0,
      file                 |-> Undefined,
      fileMetadata         |-> Undefined,
      vendorUpload         |-> Undefined,
      sanityUpload         |-> Undefined,
      videoScreenshot      |-> Undefined,
      audioWaveform        |-> Undefined,
      error                |-> Undefined ]

States ==
    { "idle", "extractingVideoMetadata", "extractingAudioMetadata",
      "uploadingToVendor", "uploadingToSanity", "success", "failure" }

\* ---------------------------------------------------------------- services

\* The Firebase upload task created by config.uploadFile: ref.put(file, ...)
\* with the three observers registered on it.  `stopped` tells whether the
\* actor the machine invoked for it has been stopped.
uploadFile(file) ==
    [status |-> "running", stopped |-> FALSE]

\* cancel with the call of uploadTask.cancel() left out
cancelWithoutAbort(task) == task

\* The function uploadFile returns: uploadTask.cancel() aborts a running
\* transfer and has no effect on one that has already ended.
cancel(task) ==
    IF task.status = "running" THEN [task EXCEPT !.status = "canceled"] ELSE task

\* The service `uploadToFirebase` behind invoke id FirebaseUpload: it calls
\* the adapter's uploadFile with callbacks that send VENDOR_PROGRESS,
\* VENDOR_DONE and VENDOR_ERROR, and hands the returned cancel function to
\* the machine as the clean-up of the invoked actor.
StartFirebaseUpload(tasks, ctx) ==
    tasks \cup {uploadFile(ctx.file)}

\* Stopping the invoked actor (on exit of uploadingToVendor) runs its
\* clean-up, which is the adapter's cancel function.
StopFirebaseUpload(tasks) ==
    { IF t.stopped THEN t ELSE [cancel(t) EXCEPT !.stopped = TRUE] : t \in tasks }

\* A stopped callback actor no longer forwards what its callbacks send.
Forwards(task) == ~task.stopped

\* What the service `uploadToSanity` resolves with: the document that
\* registers the vendor's result in the content store.
uploadToSanity(ctx) ==
    [_type |-> "externalDam.storedFile"]

\* What the adapter passes to onSuccess: {fileURL, firebase: {...}}
VendorResult == [fileURL |-> "downloadURL", firebase |-> "metadata"]

\* The blob canvas.toBlob passes to its callback
Screenshot == [type |-> "image/png"]

VendorError == [code |-> "storage/unknown", message |-> "storage/unknown"]
SanityError == [message |-> "network"]

\* The closure of the promise a state's extraction service creates.
\* ExtractAudioMetadata rejects at once unless the file's type includes
\* "audio"; `metadata` is its local variable, filled by loadedmetadata.
\* `failed` tells that the video element has reported a decoding error,
\* after which it fires no timeupdate.
ExtractionAfter(to, ctx) ==
    CASE to = "extractingVideoMetadata" ->
            [id |-> "ExtractVideoMetadata", rejected |-> FALSE, duration |-> FALSE,
             failed |-> FALSE]
      [] to = "extractingAudioMetadata" ->
            [id |-> "ExtractAudioMetadata",
             rejected |-> ~TypeIncludes(ctx.file, AudioWord), duration |-> FALSE,
             failed |-> FALSE]
      [] OTHER -> Undefined

\* ---------------------------------------------------------------- machine

\* hasUploadedToVendor with the test inverted
hasUploadedToVendorInverted(ctx) == ctx.vendorUpload = Undefined

hasUploadedToVendor(ctx) == ctx.vendorUpload # Undefined

canRetry(ctx) == ctx.retries <= 3

\* AcceptsFile without the test of the current state
AcceptsFileInAnyState(s) == TRUE

\* ['idle', 'failure'].some(state.matches)
AcceptsFile(s) == s \in {"idle", "failure"}

\* cond of the first SELECT_FILE transition
SelectsVideo(s, file) == AcceptsFile(s) /\ TypeIncludes(file, VideoWord)

\* cond of the second SELECT_FILE transition
SelectsAudio(s, file) == AcceptsFile(s) /\ TypeIncludes(file, AudioWord)

\* The upload tasks `tasks` after leaving state `from` and entering state `to`.
TasksAfter(tasks, from, to, ctx) ==
    LET left == IF from = "uploadingToVendor" THEN StopFirebaseUpload(tasks) ELSE tasks
    IN  IF to = "uploadingToVendor" THEN StartFirebaseUpload(left, ctx) ELSE left

\* A transition with a target: exits the current state node and enters `to`.
\* `tasks` are the upload tasks still pending when it is taken; the first
\* conjunct keeps the number of tracked upload tasks within MaxTasks.
Take(event, to, ctx, actions, tasks) ==
    /\ Cardinality(TasksAfter(tasks, state, to, ctx)) <= MaxTasks
    /\ state' = to
    /\ context' = ctx
    /\ extraction' = ExtractionAfter(to, ctx)
    /\ uploadTasks' = TasksAfter(tasks, state, to, ctx)
    /\ lastEvent' = event
    /\ effects' = actions
    /\ UNCHANGED lambda

\* A transition without a target, or an event no transition handles.
Stay(event, ctx, actions) ==
    /\ state' = state
    /\ context' = ctx
    /\ UNCHANGED <<extraction, uploadTasks>>
    /\ lastEvent' = event
    /\ effects' = actions
    /\ UNCHANGED lambda

\* The action `invalidFileToast` of the last SELECT_FILE transition
InvalidFileToast == <<"action", "invalidFileToast">>

\* on.SELECT_FILE of the root node
SelectFile(file) ==
    IF SelectsVideo(state, file)
    THEN /\ Take("SELECT_FILE", "extractingVideoMetadata",
                 [context EXCEPT !.file = file], {}, uploadTasks)
         /\ vendorDone' = FALSE
         /\ extracted' = "none"
    ELSE IF SelectsAudio(state, file)
    THEN /\ Take("SELECT_FILE", "extractingAudioMetadata",
                 [context EXCEPT !.file = file], {}, uploadTasks)
         /\ vendorDone' = FALSE
         /\ extracted' = "none"
    ELSE /\ Stay("SELECT_FILE", context, {InvalidFileToast})
         /\ UNCHANGED <<vendorDone, extracted>>

\* CancelInput with actions: assign(INITIAL_CONTEXT)
CancelInputResetting ==
    /\ Take("CANCEL_INPUT", "idle", INITIAL_CONTEXT, {}, uploadTasks)
    /\ vendorDone' = FALSE
    /\ extracted' = "none"

\* on.CANCEL_INPUT of the root node
CancelInput ==
    /\ Take("CANCEL_INPUT", "idle", context, {}, uploadTasks)
    /\ vendorDone' = FALSE
    /\ extracted' = "none"

\* ResetUpload assigning only the two defaults, which keeps the other fields
ResetUploadKeepingFields ==
    IF state = "success"
    THEN /\ Take("RESET_UPLOAD", "idle",
                 [context EXCEPT !.retries = 0, !.vendorUploadProgress = 0],
                 {}, uploadTasks)
         /\ vendorDone' = FALSE
         /\ extracted' = "none"
    ELSE UNCHANGED vars

\* success.on.RESET_UPLOAD
ResetUpload ==
    IF state = "success"
    THEN /\ Take("RESET_UPLOAD", "idle", INITIAL_CONTEXT, {}, uploadTasks)
         /\ vendorDone' = FALSE
         /\ extracted' = "none"
    ELSE UNCHANGED vars

\* Retry with the guard canRetry added to the cond of both transitions
RetryIfCanRetry ==
    /\ context.retries < MaxRetries
    /\ IF state = "failure" /\ canRetry(context)
       THEN LET ctx == [context EXCEPT !.retries = context.retries + 1]
            IN  /\ IF hasUploadedToVendor(context)
                   THEN Take("RETRY", "uploadingToSanity", ctx, {}, uploadTasks)
                   ELSE Take("RETRY", "uploadingToVendor", ctx, {}, uploadTasks)
                /\ UNCHANGED <<vendorDone, extracted>>
       ELSE UNCHANGED vars

\* failure.on.RETRY
Retry ==
    /\ context.retries < MaxRetries
    /\ IF state = "failure"
       THEN LET ctx == [context EXCEPT !.retries = context.retries + 1]
            IN  /\ IF hasUploadedToVendor(context)
                   THEN Take("RETRY", "uploadingToSanity", ctx, {}, uploadTasks)
                   ELSE Take("RETRY", "uploadingToVendor", ctx, {}, uploadTasks)
                /\ UNCHANGED <<vendorDone, extracted>>
       ELSE UNCHANGED vars

\* The metadata an extraction resolves with (event.data.metadata).
\* Each field tells whether the metadata has that property.
Metadata(duration, dimensions, waveformData) ==
    [duration |-> duration, dimensions |-> dimensions, waveformData |-> waveformData]

\* extractingVideoMetadata: timeupdate fires after the seek, the frame is
\* drawn and canvas.toBlob resolves the promise; invoke.onDone follows.
ExtractVideoMetadataDone ==
    /\ state = "extractingVideoMetadata"
    /\ ~extraction.failed
    /\ Take("done.invoke.ExtractVideoMetadata", "uploadingToVendor",
            [context EXCEPT
                !.videoScreenshot = Screenshot,
                !.fileMetadata = Metadata(TRUE, TRUE, FALSE)],
            {}, uploadTasks)
    /\ extracted' = "video"
    /\ UNCHANGED vendorDone

\* extractingVideoMetadata: the promise's executor throws (fastSeek is
\* missing or fails), the promise rejects; invoke.onError follows.
ExtractVideoMetadataError ==
    /\ state = "extractingVideoMetadata"
    /\ ~extraction.failed
    /\ Take("error.platform.ExtractVideoMetadata", "uploadingToVendor", context, {}, uploadTasks)
    /\ UNCHANGED <<vendorDone, extracted>>

\* extractingVideoMetadata: the video element cannot decode the file (its
\* `error` event, for which the service registers no listener) or never
\* has a frame to show: no timeupdate follows and the promise stays pending.
VideoElementFails ==
    /\ state = "extractingVideoMetadata"
    /\ ~extraction.failed
    /\ extraction' = [extraction EXCEPT !.failed = TRUE]
    /\ UNCHANGED <<state, context, uploadTasks, lastEvent, effects, vendorDone, extracted,
                   lambda>>

\* extractingAudioMetadata: the audio element's loadedmetadata listener
AudioLoadedMetadata ==
    /\ state = "extractingAudioMetadata"
    /\ ~extraction.rejected
    /\ ~extraction.duration
    /\ extraction' = [extraction EXCEPT !.duration = TRUE]
    /\ UNCHANGED <<state, context, uploadTasks, lastEvent, effects, vendorDone, extracted,
                   lambda>>

\* extractingAudioMetadata: getWaveformData resolves, the promise resolves
\* with {...metadata, waveformData}; invoke.onDone follows.
ExtractAudioMetadataDone ==
    /\ state = "extractingAudioMetadata"
    /\ ~extraction.rejected
    /\ Take("done.invoke.ExtractAudioMetadata", "uploadingToVendor",
            [context EXCEPT !.fileMetadata =
                Metadata(extraction.duration, FALSE, TRUE)],
            {}, uploadTasks)
    /\ extracted' = "audio"
    /\ UNCHANGED vendorDone

\* extractingAudioMetadata: getWaveformData throws and the catch block
\* resolves with {metadata} (invoke.onDone), or the promise was rejected
\* because the file is no audio file (invoke.onError).
ExtractAudioMetadataCatch ==
    /\ state = "extractingAudioMetadata"
    /\ IF extraction.rejected
       THEN Take("error.platform.ExtractAudioMetadata", "uploadingToVendor",
                 context, {}, uploadTasks)
       ELSE Take("done.invoke.ExtractAudioMetadata", "uploadingToVendor",
                 [context EXCEPT !.fileMetadata =
                     Metadata(extraction.duration, FALSE, FALSE)],
                 {}, uploadTasks)
    /\ extracted' = IF extraction.rejected THEN "none" ELSE "audio"
    /\ UNCHANGED vendorDone

\* OnVendorProgress as a transition with target uploadingToVendor, which
\* leaves and re-enters the state and so restarts the invoked upload
OnVendorProgressReentering(data) ==
    /\ Take("VENDOR_PROGRESS", "uploadingToVendor",
            [context EXCEPT !.vendorUploadProgress = data], {}, uploadTasks)
    /\ UNCHANGED <<vendorDone, extracted>>

\* uploadingToVendor.on.VENDOR_PROGRESS
OnVendorProgress(data) ==
    /\ Stay("VENDOR_PROGRESS", [context EXCEPT !.vendorUploadProgress = data], {})
    /\ UNCHANGED <<vendorDone, extracted>>

\* OnVendorDone without its action assign({vendorUpload: event.data})
OnVendorDoneWithoutAssign(data, tasks) ==
    /\ Take("VENDOR_DONE", "uploadingToSanity", context, {}, tasks)
    /\ vendorDone' = TRUE
    /\ UNCHANGED extracted

\* uploadingToVendor.on.VENDOR_DONE
OnVendorDone(data, tasks) ==
    /\ Take("VENDOR_DONE", "uploadingToSanity",
            [context EXCEPT !.vendorUpload = data], {}, tasks)
    /\ vendorDone' = TRUE
    /\ UNCHANGED extracted

\* uploadingToVendor.on.VENDOR_ERROR
OnVendorError(error, tasks) ==
    /\ Take("VENDOR_ERROR", "failure",
            [context EXCEPT !.error =
                [error    |-> error,
                 title    |-> "Failed to upload",
                 subtitle |-> IF context.retries > 1
                              THEN "Make sure the right credentials are set"
                              ELSE error.message]],
            {}, tasks)
    /\ UNCHANGED <<vendorDone, extracted>>

\* What a callback of an upload task leads to: the machine handles the
\* event if the task's actor still forwards it and the current state has a
\* transition for it (only uploadingToVendor has); otherwise it is dropped.
\* `rest` are the tasks that remain afterwards.
Notify(task, rest, handled) ==
    IF Forwards(task) /\ state = "uploadingToVendor"
    THEN handled
    ELSE /\ uploadTasks' = rest
         /\ UNCHANGED <<state, context, extraction, lastEvent, effects, vendorDone, extracted,
                   lambda>>

\* config.uploadFile, next observer: updateProgress(progress)
TaskProgress(task, progress) ==
    /\ task \in uploadTasks
    /\ task.status = "running"
    /\ Notify(task, uploadTasks, OnVendorProgress(progress))

\* config.uploadFile, error observer: onError(error); a canceled task
\* reports its cancellation here.
TaskError(task) ==
    /\ task \in uploadTasks
    /\ task.status \in {"running", "canceled"}
    /\ Notify(task, uploadTasks \ {task},
              OnVendorError(VendorError, uploadTasks \ {task}))

\* config.uploadFile, complete observer: the transfer has ended and the
\* observer awaits getDownloadURL() and getMetadata().
TaskComplete(task) ==
    /\ task \in uploadTasks
    /\ task.status = "running"
    /\ uploadTasks' = (uploadTasks \ {task}) \cup {[task EXCEPT !.status = "completing"]}
    /\ UNCHANGED <<state, context, extraction, lastEvent, effects, vendorDone, extracted,
                   lambda>>

\* config.uploadFile, complete observer after both awaits: onSuccess(...)
TaskSuccess(task) ==
    /\ task \in uploadTasks
    /\ task.status = "completing"
    /\ Notify(task, uploadTasks \ {task},
              OnVendorDone(VendorResult, uploadTasks \ {task}))

\* config.uploadFile, complete observer: getDownloadURL() or getMetadata()
\* rejects, the async observer ends without calling onSuccess or onError.
TaskFetchRejects(task) ==
    /\ task \in uploadTasks
    /\ task.status = "completing"
    /\ uploadTasks' = uploadTasks \ {task}
    /\ UNCHANGED <<state, context, extraction, lastEvent, effects, vendorDone, extracted,
                   lambda>>

\* uploadingToSanity.invoke.onDone
UploadToSanityDone ==
    /\ state = "uploadingToSanity"
    /\ Take("done.invoke.SanityUpload", "success",
            [context EXCEPT !.sanityUpload = uploadToSanity(context)], {}, uploadTasks)
    /\ UNCHANGED <<vendorDone, extracted>>

\* uploadingToSanity.invoke.onError
UploadToSanityError ==
    /\ state = "uploadingToSanity"
    /\ Take("error.platform.SanityUpload", "failure",
            [context EXCEPT !.error =
                [error    |-> SanityError,
                 title    |-> "Failed to save to library",
                 subtitle |-> IF context.retries > 0
                              THEN "Try again in a few minutes"
                              ELSE "This is probably due to a network error"]],
            {}, uploadTasks)
    /\ UNCHANGED <<vendorDone, extracted>>

TaskStatus == {"running", "completing", "canceled"}

Tasks == [status : TaskStatus, stopped : BOOLEAN]

Init ==
    /\ state = "idle"
    /\ context = INITIAL_CONTEXT
    /\ extraction = Undefined
    /\ uploadTasks = {}
    /\ lastEvent = "xstate.init"
    /\ effects = {}
    /\ vendorDone = FALSE
    /\ extracted = "none"
    /\ lambda = Undefined

Next ==
    \/ \E file \in EventFiles : SelectFile(file)
    \/ CancelInput
    \/ ResetUpload
    \/ Retry
    \/ ExtractVideoMetadataDone
    \/ ExtractVideoMetadataError
    \/ VideoElementFails
    \/ AudioLoadedMetadata
    \/ ExtractAudioMetadataDone
    \/ ExtractAudioMetadataCatch
    \/ \E task \in Tasks, progress \in ProgressValues : TaskProgress(task, progress)
    \/ \E task \in Tasks : TaskError(task)
    \/ \E task \in Tasks : TaskComplete(task)
    \/ \E task \in Tasks : TaskSuccess(task)
    \/ \E task \in Tasks : TaskFetchRejects(task)
    \/ UploadToSanityDone
    \/ UploadToSanityError

Spec == Init /\ [][Next]_vars

\* ---------------------------------------------------------------- properties

OptionalFields ==
    {"file", "fileMetadata", "vendorUpload", "sanityUpload", "videoScreenshot", "error"}

\* The type of the file starts with "video/" or "audio/".
IsVideoOrAudioType(file) ==
    \/ TypeStartsWith(file, VideoWord \o <<"/">>)
    \/ TypeStartsWith(file, AudioWord \o <<"/">>)

C2_VendorUploadOnlyOfCurrentAttempt ==
    (context.vendorUpload # Undefined) <=> vendorDone

\* C3: when the machine is in `failure` because the registration failed
\* (which a successful vendor upload preceded), a RETRY moves to
\* `uploadingToSanity`, starts no upload task of the vendor adapter and
\* makes `retries` exactly one greater.
C3_RetryAfterRegistrationFailure ==
    [][(/\ state = "failure"
        /\ context.error.title = "Failed to save to library"
        /\ lastEvent' = "RETRY") =>
          /\ state' = "uploadingToSanity"
          /\ uploadTasks' = uploadTasks
          /\ context'.retries = context.retries + 1]_vars

\* A retry of the registration alone has been taken after a vendor upload
\* of the current file.
C3_Witness ==
    /\ state = "uploadingToSanity"
    /\ lastEvent = "RETRY"
    /\ vendorDone
    /\ context.retries > 0
    /\ context.error.title = "Failed to save to library"

\* C4 (as claimed): when the machine is in `failure` because the vendor
\* upload failed and no vendor upload of the currently selected file has
\* succeeded, a RETRY moves to `uploadingToVendor` and makes `retries`
\* exactly one greater.
C4_RetryAfterVendorFailure ==
    [][(/\ state = "failure"
        /\ context.error.title = "Failed to upload"
        /\ ~vendorDone
        /\ lastEvent' = "RETRY") =>
          /\ state' = "uploadingToVendor"
          /\ context'.retries = context.retries + 1]_vars

\* C5: a CANCEL_INPUT in `uploadingToVendor` moves to `idle` and aborts the
\* transfer (no task is left running, none is still forwarded), and no
\* later callback of a task whose actor was stopped changes the state or
\* the context.
C5_CancelAbortsUpload ==
    [][/\ (state = "uploadingToVendor" /\ lastEvent' = "CANCEL_INPUT") =>
             /\ state' = "idle"
             /\ \A t \in uploadTasks' : t.stopped /\ t.status # "running"
       /\ \A t \in uploadTasks :
             (/\ t.stopped
              /\ \/ \E p \in ProgressValues : TaskProgress(t, p)
                 \/ TaskError(t)
                 \/ TaskSuccess(t)) =>
                UNCHANGED <<state, context>>]_vars

\* A canceled transfer is still to report its end while the upload of a
\* later selection is running.
C5_Witness ==
    /\ state = "uploadingToVendor"
    /\ \E t \in uploadTasks : t.stopped /\ t.status = "canceled"
    /\ \E t \in uploadTasks : ~t.stopped /\ t.status = "running"

\* C6 (as claimed): `error` is present only while the machine is in `failure`.
C6_ErrorOnlyInFailure ==
    context.error # Undefined => state = "failure"

\* C7 (as claimed): right after an accepted SELECT_FILE and right after a
\* RESET_UPLOAD, `retries` is 0.
C7_RetriesZeroAfterSelectOrReset ==
    [][(\/ /\ lastEvent' = "SELECT_FILE"
           /\ state' \in {"extractingVideoMetadata", "extractingAudioMetadata"}
           /\ state \in {"idle", "failure"}
        \/ /\ lastEvent' = "RESET_UPLOAD"
           /\ state = "success") =>
          context'.retries = 0]_vars

\* C8 (as claimed): SELECT_FILE in `idle` or `failure` with a file whose
\* type does not start with "video/" or "audio/" leaves the state and the
\* context unchanged and shows the rejection notice.
C8_OtherTypesRejected ==
    [][\A file \in EventFiles :
          (/\ state \in {"idle", "failure"}
           /\ ~IsVideoOrAudioType(file)
           /\ SelectFile(file)) =>
             /\ state' = state
             /\ context' = context
             /\ InvalidFileToast \in effects']_vars

\* C9 (as claimed): SELECT_FILE in `idle` or `failure` with a file whose
\* type starts with "video" moves to extractingVideoMetadata, with one whose
\* type starts with "audio" to extractingAudioMetadata, and stores the file.
C9_TypeDecidesExtraction ==
    [][\A file \in EventFiles :
          (state \in {"idle", "failure"} /\ SelectFile(file)) =>
             /\ TypeStartsWith(file, VideoWord) =>
                   state' = "extractingVideoMetadata" /\ context'.file = file
             /\ TypeStartsWith(file, AudioWord) =>
                   state' = "extractingAudioMetadata" /\ context'.file = file]_vars

\* C10: SELECT_FILE in a state other than `idle` and `failure` changes
\* neither the state nor the context (so not `file`) and leaves the running
\* extraction and the upload tasks as they are.
C10_BusyStatesKeepFile ==
    [][\A file \in EventFiles :
          (state \notin {"idle", "failure"} /\ SelectFile(file)) =>
             /\ state' = state
             /\ context' = context
             /\ UNCHANGED <<extraction, uploadTasks>>]_vars

\* A file was selected while an upload was running, and the upload runs on.
C10_Witness ==
    /\ state = "uploadingToVendor"
    /\ lastEvent = "SELECT_FILE"
    /\ \E t \in uploadTasks : ~t.stopped /\ t.status = "running"

\* The event loop delivers the settling of a pending video extraction
\* whenever it stays possible (the element shows a frame, or the seek
\* threw); the user's events are under no fairness.
FairSpec ==
    Spec /\ WF_vars(ExtractVideoMetadataDone \/ ExtractVideoMetadataError)

\* C11 (as claimed): after a failed extraction in extractingVideoMetadata
\* the machine eventually leaves that state (to uploadingToVendor, or to
\* idle on CANCEL_INPUT), and an extracting state is never left for `failure`.
C11_FailedVideoExtractionProceeds ==
    /\ (state = "extractingVideoMetadata" /\ extraction.failed)
          ~> (state # "extractingVideoMetadata")
    /\ [][(state \in {"extractingVideoMetadata", "extractingAudioMetadata"})
             => (state' # "failure")]_vars

\* The states of an attempt from uploadingToVendor on
AfterExtraction == {"uploadingToVendor", "uploadingToSanity", "success", "failure"}

\* C12 (as claimed): from uploadingToVendor on, fileMetadata is absent if
\* the extraction of the selected file failed, and videoScreenshot is absent
\* unless the selected file's video extraction succeeded.
C12_ExtractionFieldsOfCurrentFile ==
    state \in AfterExtraction =>
        /\ (extracted = "none") => (context.fileMetadata = Undefined)
        /\ (extracted # "video") => (context.videoScreenshot = Undefined)

\* C13 (as claimed): sanityUpload is present only in `success`.
C13_SanityUploadOnlyInSuccess ==
    (context.sanityUpload # Undefined) => (state = "success")

\* C14: a VENDOR_PROGRESS event the machine receives in uploadingToVendor
\* sets vendorUploadProgress to the event's value, leaves every other
\* context field as it is, stays in uploadingToVendor and neither stops nor
\* starts an upload task.
C14_ProgressOnlyUpdatesProgress ==
    [][\A task \in Tasks, progress \in ProgressValues :
          (/\ state = "uploadingToVendor"
           /\ Forwards(task)
           /\ TaskProgress(task, progress)) =>
             /\ context' = [context EXCEPT !.vendorUploadProgress = progress]
             /\ state' = "uploadingToVendor"
             /\ UNCHANGED <<uploadTasks, extraction>>]_vars

\* A progress report of 100 has been received and the upload runs on.
C14_Witness ==
    /\ state = "uploadingToVendor"
    /\ lastEvent = "VENDOR_PROGRESS"
    /\ context.vendorUploadProgress = 100
    /\ uploadTasks = {uploadFile(context.file)}

\* C15: a step changes `retries` only by +1 on a RETRY taken in `failure`
\* or back to 0 on a RESET_UPLOAD taken in `success`; every other step
\* leaves it as it is.
C15_RetriesChangeOnlyOnRetryAndReset ==
    [][\/ context'.retries = context.retries
       \/ /\ state = "failure"
          /\ lastEvent' = "RETRY"
          /\ context'.retries = context.retries + 1
       \/ /\ state = "success"
          /\ lastEvent' = "RESET_UPLOAD"
          /\ context'.retries = 0]_vars

\* An attempt was cancelled after two retries and the count was kept.
C15_Witness ==
    /\ state = "idle"
    /\ lastEvent = "CANCEL_INPUT"
    /\ context.retries >= 2

\* C17 (as claimed): when the waveform computation of an audio file fails,
\* the extraction resolves with metadata that has the duration and no
\* waveform, and the machine enters uploadingToVendor with it in
\* fileMetadata, whether or not loadedmetadata has fired before.
C17_WaveformFailureKeepsDuration ==
    [][(/\ state = "extractingAudioMetadata"
        /\ ~extraction.rejected
        /\ ExtractAudioMetadataCatch) =>
          /\ state' = "uploadingToVendor"
          /\ lastEvent' = "done.invoke.ExtractAudioMetadata"
          /\ context'.fileMetadata # Undefined
          /\ context'.fileMetadata.duration
          /\ ~context'.fileMetadata.waveformData]_vars

\* C18 (as claimed): while the machine is in uploadingToVendor, an upload
\* task that forwards its callbacks is pending (its transfer runs, or it is
\* fetching the download URL and the metadata), so that onSuccess or
\* onError is still to come.
C18_UploadAlwaysReports ==
    (state = "uploadingToVendor") => (\E task \in uploadTasks : Forwards(task))

\* C19: `file` is present in every state other than idle, `vendorUpload`
\* in uploadingToSanity and success, `sanityUpload` in success.
C19_StateHasItsResults ==
    /\ (state # "idle") => (context.file # Undefined)
    /\ (state \in {"uploadingToSanity", "success"}) => (context.vendorUpload # Undefined)
    /\ (state = "success") => (context.sanityUpload # Undefined)

\* An upload has gone through to success with its results in the context.
C19_Witness ==
    /\ state = "success"
    /\ lastEvent = "done.invoke.SanityUpload"
    /\ context.file # Undefined
    /\ context.vendorUpload = VendorResult
    /\ context.sanityUpload = uploadToSanity(context)

\* C20: in `failure` RETRY is taken whatever `retries` is (here: below
\* MaxRetries, with room for the upload task it may start) and adds one to
\* it, and `failure` is left only by RETRY, SELECT_FILE or CANCEL_INPUT.
C20_RetryIsNeverRefused ==
    /\ []((/\ state = "failure"
           /\ context.retries < MaxRetries
           /\ Cardinality(uploadTasks) < MaxTasks) =>
             ENABLED (Retry /\ context'.retries = context.retries + 1))
    /\ [][(state = "failure" /\ state' # "failure") =>
             (lastEvent' \in {"RETRY", "SELECT_FILE", "CANCEL_INPUT"})]_vars

\* A RETRY was taken although canRetry was false.
C20_Witness ==
    /\ lastEvent = "RETRY"
    /\ state \in {"uploadingToVendor", "uploadingToSanity"}
    /\ context.retries > 3
    /\ ~canRetry([context EXCEPT !.retries = context.retries - 1])

\* ------------------------------------------ packages/aws: exports.handler

\* JavaScript's null
Null == [tag |-> "null"]

SECRET == Str(<<"S", "E", "C", "R", "E", "T", "_", "C", "O", "D", "E">>)

\* Expires of the presigned post, in seconds
Expires == 30

SHARED_HEADERS == [ContentType |-> "application/json"]

EmptyString == Str(<<>>)

\* {}: an object without properties
EmptyObject == [tag |-> "object"]

\* The values JavaScript takes for true in a condition
Truthy(value) == value \notin {Undefined, Null, EmptyString}

\* a || b: the first operand unless it is falsy
Or(a, b) == IF Truthy(a) THEN a ELSE b

\* object.name, undefined for a property the value does not have
Prop(object, name) ==
    IF name \in DOMAIN object THEN object[name] ELSE Undefined

\* String.prototype.toUpperCase on the letters the requests use
UpperCaseOf(char) ==
    CASE char = "o" -> "O" [] char = "p" -> "P" [] char = "t" -> "T"
      [] char = "i" -> "I" [] char = "n" -> "N" [] char = "s" -> "S"
      [] OTHER -> char

toUpperCase(string) ==
    Str([i \in 1..Len(string.chars) |-> UpperCaseOf(string.chars[i])])

OPTIONS == Str(<<"O", "P", "T", "I", "O", "N", "S">>)
options == Str(<<"o", "p", "t", "i", "o", "n", "s">>)
POST    == Str(<<"P", "O", "S", "T">>)

\* The text JSON.stringify gives for a value, and a text that is no JSON
JSONstringify(value) == [json |-> value]
Garbage == [text |-> "{contentType:"]

\* JSON.parse: the value of a JSON text, or a thrown SyntaxError
JSONparse(text) ==
    IF "json" \in DOMAIN text
    THEN [threw |-> FALSE, value |-> text.json]
    ELSE [threw |-> TRUE, value |-> Undefined]

\* The values a request body may encode: null, a JSON string, and objects
\* with or without each of the three properties the handler reads.
BodyObjects ==
    [contentType : {Undefined, Str(VideoWord)},
     fileName    : {Undefined, Str(<<"a">>)},
     secret      : {Undefined, SECRET, Str(<<"x">>)}]

BodyValues == {Null, [string |-> SECRET]} \cup BodyObjects

\* event.body: absent, empty, no JSON, or the JSON text of a value
Bodies ==
    {Undefined, EmptyString, Garbage} \cup {JSONstringify(v) : v \in BodyValues}

\* event.requestContext of the REST and of the HTTP API of the gateway
RequestContexts ==
    {Undefined} \cup
    [httpMethod : {Undefined, options, POST},
     http       : {Undefined} \cup [method : {OPTIONS, POST}]]

Events ==
    [httpMethod     : {Undefined, EmptyString, OPTIONS, options, POST},
     requestContext : RequestContexts,
     body           : Bodies]

\* event.httpMethod || event?.requestContext?.httpMethod
\*                  || event?.requestContext?.http?.method
MethodOf(event) ==
    LET requestContext == event.requestContext
        http == IF requestContext = Undefined THEN Undefined ELSE requestContext.http
    IN  Or(event.httpMethod,
           Or(IF requestContext = Undefined THEN Undefined ELSE requestContext.httpMethod,
              IF http = Undefined THEN Undefined ELSE http.method))

\* method?.toUpperCase() === "OPTIONS"
IsPreflight(event) ==
    LET method == MethodOf(event)
    IN  method # Undefined /\ toUpperCase(method) = OPTIONS

\* callback(error, response): the invocation's answer
callback(invocation, error, response) ==
    [invocation EXCEPT
        !.pc = "done",
        !.responses = Append(@, [error |-> error, response |-> response])]

Response(statusCode, body) ==
    [statusCode |-> statusCode, body |-> JSONstringify(body), headers |-> SHARED_HEADERS]

\* The key of the uploaded object: fileName, or two random keys and the type
KeyOf(fileName, contentType) ==
    Or(fileName,
       [getRandomKey |-> TRUE,
        type |-> Or(contentType, Str(<<"u", "n", "k", "n", "o", "w", "n">>))])

\* The parameters the handler passes to s3.createPresignedPost
PresignedPostParams(body) ==
    LET contentType == Prop(body, "contentType")
        fileName    == Prop(body, "fileName")
    IN  [Fields      |-> [key |-> KeyOf(fileName, contentType), acl |-> "public-read"],
         Conditions  |-> IF Truthy(contentType)
                         THEN <<<<"eq", "$Content-Type", contentType>>>>
                         ELSE <<>>,
         Expires     |-> Expires,
         Bucket      |-> "YOUR_BUCKET",
         ContentType |-> contentType]

\* What createPresignedPost hands to its callback
Signed(params) == [url |-> params.Bucket, fields |-> params.Fields]
SigningError == [code |-> "CredentialsError"]

\* exports.handler with the test of the secret before the test of the body
handlerTestingSecretFirst ==
    /\ lambda.pc = "invoked"
    /\ LET event  == lambda.event
           parsed == JSONparse(Or(event.body, JSONstringify(EmptyObject)))
           body   == Or(parsed.value, EmptyObject)
       IN  lambda' =
             IF IsPreflight(event)
             THEN callback(lambda, Null, Response(200, event))
             ELSE IF Prop(body, "secret") # SECRET
             THEN callback(lambda, Null,
                           Response(401, [message |-> "Unauthorized", event |-> event]))
             ELSE IF parsed.threw
             THEN callback(lambda, Null,
                           Response(400, [message |-> "Missing body", event |-> event]))
             ELSE [lambda EXCEPT !.pc = "signing", !.params = PresignedPostParams(body)]
    /\ UNCHANGED machineVars

\* exports.handler up to its return: it answers through callback, or has
\* called s3.createPresignedPost, whose callback is still to come.
handler ==
    /\ lambda.pc = "invoked"
    /\ LET event  == lambda.event
           parsed == JSONparse(Or(event.body, JSONstringify(EmptyObject)))
           body   == Or(parsed.value, EmptyObject)
       IN  lambda' =
             IF IsPreflight(event)
             THEN callback(lambda, Null, Response(200, event))
             ELSE IF parsed.threw
             THEN callback(lambda, Null,
                           Response(400, [message |-> "Missing body", event |-> event]))
             ELSE IF Prop(body, "secret") # SECRET
             THEN callback(lambda, Null,
                           Response(401, [message |-> "Unauthorized", event |-> event]))
             ELSE [lambda EXCEPT !.pc = "signing", !.params = PresignedPostParams(body)]
    /\ UNCHANGED machineVars

\* The callback of createPresignedPost without an error
PresignedPostSigned ==
    /\ lambda.pc = "signing"
    /\ lambda' = callback(lambda, Null, Response(200, Signed(lambda.params)))
    /\ UNCHANGED machineVars

\* The callback of createPresignedPost with an error
PresignedPostFails ==
    /\ lambda.pc = "signing"
    /\ lambda' = callback(lambda, SigningError, Response(500, SigningError))
    /\ UNCHANGED machineVars

\* The handler is invoked with any of the events
HandlerInit ==
    /\ state = "idle"
    /\ context = INITIAL_CONTEXT
    /\ extraction = Undefined
    /\ uploadTasks = {}
    /\ lastEvent = "xstate.init"
    /\ effects = {}
    /\ vendorDone = FALSE
    /\ extracted = "none"
    /\ lambda \in [pc : {"invoked"}, event : Events, params : {Undefined},
                   responses : {<<>>}]

HandlerNext ==
    \/ handler
    \/ PresignedPostSigned
    \/ PresignedPostFails

HandlerSpec == HandlerInit /\ [][HandlerNext]_vars

\* The request's method is OPTIONS in either case of the letters
AsksPreflight(event) == MethodOf(event) \in {OPTIONS, options}

\* The request's body is present and is no JSON text
BodyUnparseable(event) == event.body = Garbage

\* The request's body is the JSON text of an object with the right secret
SecretMatches(event) ==
    \E object \in BodyObjects :
        event.body = JSONstringify(object) /\ object.secret = SECRET

\* The invocation has answered once, with this status
AnsweredWith(statusCode) ==
    /\ Len(lambda.responses) = 1
    /\ lambda.responses[1].response.statusCode = statusCode

\* The one answer is the presigned-upload descriptor, without an error
AnsweredWithDescriptor ==
    /\ AnsweredWith(200)
    /\ lambda.responses[1].error = Null
    /\ lambda.responses[1].response.body = JSONstringify(Signed(lambda.params))

\* C16 (as claimed): the handler answers once: 200 to an OPTIONS request,
\* else 400 to a body that is no JSON, else 401 to a wrong or missing
\* secret, and 200 with the presigned-upload descriptor in every other case.
C16_HandlerAnswersInOrder ==
    /\ Len(lambda.responses) <= 1
    /\ (lambda.pc = "done") =>
          IF AsksPreflight(lambda.event) THEN AnsweredWith(200)
          ELSE IF BodyUnparseable(lambda.event) THEN AnsweredWith(400)
          ELSE IF ~SecretMatches(lambda.event) THEN AnsweredWith(401)
          ELSE AnsweredWithDescriptor

\* C16 (amended): as above, except that a request with the right secret is
\* answered 200 with the descriptor when createPresignedPost succeeds and
\* 500 together with the signing error when it fails; no answer is given
\* before the invocation is done.
C16_HandlerAnswersOrReportsSigningError ==
    /\ Len(lambda.responses) <= 1
    /\ (lambda.pc # "done") => (lambda.responses = <<>>)
    /\ (lambda.pc = "done") =>
          IF AsksPreflight(lambda.event) THEN AnsweredWith(200)
          ELSE IF BodyUnparseable(lambda.event) THEN AnsweredWith(400)
          ELSE IF ~SecretMatches(lambda.event) THEN AnsweredWith(401)
          ELSE \/ AnsweredWithDescriptor
               \/ /\ AnsweredWith(500)
                  /\ lambda.responses[1].error = SigningError

\* A request with the right secret was answered 500: signing failed.
C16_Witness ==
    /\ lambda.pc = "done"
    /\ ~AsksPreflight(lambda.event)
    /\ SecretMatches(lambda.event)
    /\ AnsweredWith(500)

====
